---- MODULE Spec2Model ----
(***************************************************************************)
(* Model of the debug namespace of the API server                          *)
(* (core/node/api_server/src/web3/namespaces/debug.rs): the four trace     *)
(* operations, the VM permit each traceCall request takes from the shared  *)
(* concurrency limiter, and the call tracer cell shared between the        *)
(* request and the executor invocations it awaits.                         *)
(***************************************************************************)
EXTENDS Integers, Sequences, FiniteSets, TLC

\* Number of requests in flight at once.
NumReqs == 2
\* Capacity of the VM concurrency limiter (configured outside this file).
Capacity == 1
\* Largest number of calls in a recorded or stored call forest.
MaxNodes == 3

Reqs == 1..NumReqs

----------------------------------------------------------------------------
(* Data *)

\* Some(x) / None of the source, as a sequence of length at most one.
None == <<>>
Some(x) == <<x>>

\* vm_trace::Call as produced by the call tracer or read from storage:
\* the fields the trace operations touch.
Call(gas_used, output, revert_reason, calls) ==
    [gas_used |-> gas_used, output |-> output,
     revert_reason |-> revert_reason, calls |-> calls]

\* Vec<Call> with exactly n nodes in all, children in program order.
RECURSIVE ForestsOf(_)
ForestsOf(n) ==
    IF n = 0 THEN {<<>>}
    ELSE UNION {{<<Call(0, "0x", None, f1)>> \o f2 :
                    f1 \in ForestsOf(k), f2 \in ForestsOf(n - 1 - k)} :
                k \in 0..(n - 1)}

Forests(n) == UNION {ForestsOf(k) : k \in 0..n}

\* Domains the requests' options and the executor's and the storage's answers
\* are drawn from: Small for runs with several concurrent requests, Rich for
\* runs with one request.
Small == [reqs |-> Reqs, options |-> {FALSE}, forests |-> ForestsOf(1),
          recordings |-> {None}, bytes |-> {"0x01"}, events |-> {<<>>}]
Rich == [reqs |-> {1}, options |-> BOOLEAN, forests |-> Forests(MaxNodes),
         recordings |-> {None} \cup {Some(f) : f \in Forests(MaxNodes)},
         bytes |-> {"0x01", "0x02"}, events |-> {<<>>, <<"ev">>}]

\* ExecutionResult::{Success, Revert, Halt} with its output or reason.
ExecutionResults(D) ==
    [kind : {"Success", "Revert", "Halt"}, data : D.bytes]

\* VmExecutionResultAndLogs: result, logs.events, statistics.gas_used.
VmOutputs(D) ==
    [result : ExecutionResults(D), events : D.events, gas_used : {21}]

\* Result<_, Web3Error> handed back to the API caller.
Ok(v) == [ok |-> TRUE, error |-> "none", reason |-> None, value |-> Some(v)]
Err(e, reason) == [ok |-> FALSE, error |-> e, reason |-> reason, value |-> None]

----------------------------------------------------------------------------
(* State *)

VARIABLES
    pc,                 \* where each request stands in its handler
    method,             \* the operation the request runs
    only_top_call,      \* options.tracer_config.only_top_call
    block_id,           \* the block the request names
    connection,         \* the request holds a storage connection
    conn_acquired,      \* the request has acquired a storage connection
    permits,            \* permits left in the VM concurrency limiter
    closed,             \* the limiter is closed for shutdown
    vm_permit,          \* the local vm_permit: unset, None, Some, moved, dropped
    permit_refs,        \* live handles of the request's permit
    granted,            \* permits granted to the request so far
    released,           \* permits the request gave back so far
    call_tracer_result, \* content of the request's OnceCell
    cell_refs,          \* strong count of the Arc around the cell
    custom_tracers,     \* the local custom_tracers holds a handle of the cell
    exec_tracers,       \* the running executor invocation holds a handle
    tracers_attached,   \* executor invocations that were handed a handle
    cell_writes,        \* writes to the cell attempted by the executor
    cell_reads,         \* reads of the cell by the request
    invocations,        \* executor invocations the request has started
    result,             \* what the primary execution returned
    output,             \* what the secondary execution returned
    call_traces,        \* what the storage query returned
    response            \* what the request returned to its caller

reqVars == <<method, only_top_call, block_id>>
connVars == <<connection, conn_acquired>>
poolVars == <<permits, closed>>
permitVars == <<vm_permit, permit_refs, granted, released>>
cellVars == <<call_tracer_result, cell_refs, custom_tracers, exec_tracers,
              tracers_attached, cell_writes, cell_reads>>
execVars == <<invocations, result, output>>

debugVars == <<pc, reqVars, connVars, poolVars, permitVars, cellVars,
               execVars, call_traces, response>>

\* The chain genesis command (zk_inception), a program of its own.
VARIABLES
    genesis_pc,         \* where the genesis command stands
    dont_drop,          \* args.dont_drop
    prover_version,     \* config.prover_version
    verbose,            \* global_config().verbose
    proof_sending_mode, \* general.eth.sender.proof_sending_mode as saved
    genesis_calls,      \* the database and server calls made, each with its outcome
    debug_log,          \* the debug messages logged
    genesis_result      \* what genesis() returned

genesisVars == <<genesis_pc, dont_drop, prover_version, verbose,
                 proof_sending_mode, genesis_calls, debug_log,
                 genesis_result>>

vars == <<debugVars, genesisVars>>

Init ==
    /\ pc = [r \in Reqs |-> "idle"]
    /\ method = [r \in Reqs |-> "none"]
    /\ only_top_call = [r \in Reqs |-> FALSE]
    /\ block_id = [r \in Reqs |-> "none"]
    /\ connection = [r \in Reqs |-> FALSE]
    /\ conn_acquired = [r \in Reqs |-> FALSE]
    /\ permits = Capacity
    /\ closed = FALSE
    /\ vm_permit = [r \in Reqs |-> "unset"]
    /\ permit_refs = [r \in Reqs |-> 0]
    /\ granted = [r \in Reqs |-> 0]
    /\ released = [r \in Reqs |-> 0]
    /\ call_tracer_result = [r \in Reqs |-> None]
    /\ cell_refs = [r \in Reqs |-> 0]
    /\ custom_tracers = [r \in Reqs |-> FALSE]
    /\ exec_tracers = [r \in Reqs |-> FALSE]
    /\ tracers_attached = [r \in Reqs |-> 0]
    /\ cell_writes = [r \in Reqs |-> 0]
    /\ cell_reads = [r \in Reqs |-> 0]
    /\ invocations = [r \in Reqs |-> 0]
    /\ result = [r \in Reqs |-> None]
    /\ output = [r \in Reqs |-> None]
    /\ call_traces = [r \in Reqs |-> None]
    /\ response = [r \in Reqs |-> None]
    /\ genesis_pc = "idle"
    /\ dont_drop = FALSE
    /\ prover_version = "NoProofs"
    /\ verbose = FALSE
    /\ proof_sending_mode = "unset"
    /\ genesis_calls = <<>>
    /\ debug_log = <<>>
    /\ genesis_result = None

----------------------------------------------------------------------------
(* Ownership: what ends when a handle goes out of scope *)

\* n handles of the request's VmPermit are dropped; the permit goes back to
\* the limiter when the last one goes.
drop_permit(r, n) ==
    LET left == permit_refs[r] - n IN
    /\ permit_refs' = [permit_refs EXCEPT ![r] = left]
    /\ IF n > 0 /\ left = 0
       THEN /\ permits' = permits + 1
            /\ released' = [released EXCEPT ![r] = @ + 1]
       ELSE UNCHANGED <<permits, released>>

\* The handler returns resp: its locals go out of scope (the connection, the
\* local vm_permit, call_tracer_result and custom_tracers).
return_leaking_permit(r, resp) ==
    /\ pc' = [pc EXCEPT ![r] = "done"]
    /\ response' = [response EXCEPT ![r] = Some(resp)]
    /\ connection' = [connection EXCEPT ![r] = FALSE]
    /\ UNCHANGED <<permit_refs, permits, released, vm_permit>>
    /\ cell_refs' = [cell_refs EXCEPT ![r] =
                        IF @ = 0 THEN 0
                        ELSE @ - 1 - (IF custom_tracers[r] THEN 1 ELSE 0)]
    /\ custom_tracers' = [custom_tracers EXCEPT ![r] = FALSE]

return_from(r, resp) ==
    /\ pc' = [pc EXCEPT ![r] = "done"]
    /\ response' = [response EXCEPT ![r] = Some(resp)]
    /\ connection' = [connection EXCEPT ![r] = FALSE]
    /\ drop_permit(r, IF vm_permit[r] = "Some" THEN 1 ELSE 0)
    /\ vm_permit' = [vm_permit EXCEPT ![r] =
                        IF @ = "Some" THEN "dropped" ELSE @]
    /\ cell_refs' = [cell_refs EXCEPT ![r] =
                        IF @ = 0 THEN 0
                        ELSE @ - 1 - (IF custom_tracers[r] THEN 1 ELSE 0)]
    /\ custom_tracers' = [custom_tracers EXCEPT ![r] = FALSE]

\* What return_from leaves alone, for the actions that do nothing else.
returnFrame == <<reqVars, conn_acquired, closed, granted, call_tracer_result,
                 exec_tracers, tracers_attached, cell_writes, cell_reads,
                 execVars, call_traces>>

----------------------------------------------------------------------------
(* The VM concurrency limiter and the call tracer cell *)

\* VmConcurrencyLimiter::acquire(): None once the limiter is closed, a permit
\* when one is free, and the caller stays suspended otherwise.
acquire ==
    IF closed THEN "None" ELSE IF permits > 0 THEN "Some" ELSE "wait"

\* OnceCell::set by a tracer holding a handle: the first write stays.
cell_set(cell, w) == IF w = None \/ cell /= None THEN cell ELSE w

\* The server begins its shutdown: the limiter stops granting permits.
close ==
    /\ ~closed
    /\ closed' = TRUE
    /\ UNCHANGED <<pc, reqVars, connVars, permits, permitVars, cellVars,
                   execVars, call_traces, response>>

    /\ UNCHANGED genesisVars
----------------------------------------------------------------------------
(* debug_trace_call_impl *)

\* Lines 132-137: the block defaults to pending, the options are read.
trace_call_begin(r, D) ==
    /\ pc[r] = "idle"
    /\ r \in D.reqs
    /\ \E otc \in D.options :
          only_top_call' = [only_top_call EXCEPT ![r] = otc]
    /\ method' = [method EXCEPT ![r] = "traceCall"]
    /\ block_id' = [block_id EXCEPT ![r] = "Pending"]
    /\ pc' = [pc EXCEPT ![r] = "tc_connection"]
    /\ UNCHANGED <<connVars, poolVars, permitVars, cellVars, execVars,
                   call_traces, response>>

    /\ UNCHANGED genesisVars
\* Line 139: acquire_connection().await?
trace_call_acquire_connection(r) ==
    /\ pc[r] = "tc_connection"
    /\ \/ /\ connection' = [connection EXCEPT ![r] = TRUE]
          /\ conn_acquired' = [conn_acquired EXCEPT ![r] = TRUE]
          /\ pc' = [pc EXCEPT ![r] = "tc_resolve"]
          /\ UNCHANGED <<reqVars, poolVars, permitVars, cellVars, execVars,
                         call_traces, response>>
       \/ /\ return_from(r, Err("InternalError", Some("connection")))
          /\ UNCHANGED returnFrame

    /\ UNCHANGED genesisVars
\* Lines 140-143 without the drop(connection) of line 144.
trace_call_resolve_block_args_keeping_connection(r) ==
    /\ pc[r] = "tc_resolve"
    /\ \/ /\ pc' = [pc EXCEPT ![r] = "tc_gas"]
          /\ UNCHANGED <<reqVars, connVars, poolVars, permitVars, cellVars,
                         execVars, call_traces, response>>
       \/ /\ return_from(r, Err("NoBlock", None))
          /\ UNCHANGED returnFrame

    /\ UNCHANGED genesisVars
\* Lines 140-144: resolve_block_args(..).await?, then drop(connection).
trace_call_resolve_block_args(r) ==
    /\ pc[r] = "tc_resolve"
    /\ \/ /\ connection' = [connection EXCEPT ![r] = FALSE]
          /\ pc' = [pc EXCEPT ![r] = "tc_gas"]
          /\ UNCHANGED <<reqVars, conn_acquired, poolVars, permitVars,
                         cellVars, execVars, call_traces, response>>
       \/ /\ return_from(r, Err("NoBlock", None))
          /\ UNCHANGED returnFrame

    /\ UNCHANGED genesisVars
\* Lines 152-161: the default gas, when the request names none.
trace_call_default_gas(r) ==
    /\ pc[r] = "tc_gas"
    /\ \/ /\ pc' = [pc EXCEPT ![r] = "tc_decode"]
          /\ UNCHANGED <<reqVars, connVars, poolVars, permitVars, cellVars,
                         execVars, call_traces, response>>
       \/ /\ return_from(r, Err("InternalError", Some("default gas")))
          /\ UNCHANGED returnFrame

    /\ UNCHANGED genesisVars
\* Lines 163-182 in another order: the permit is acquired first, the
\* request is decoded under it, and a failure gives the permit back.
trace_call_decode_under_permit(r) ==
    /\ pc[r] = "tc_decode"
    /\ \/ /\ pc' = [pc EXCEPT ![r] = "tc_acquire"]
          /\ UNCHANGED <<reqVars, connVars, poolVars, permitVars, cellVars,
                         execVars, call_traces, response>>
       \/ /\ acquire = "Some"
          /\ granted' = [granted EXCEPT ![r] = @ + 1]
          /\ released' = [released EXCEPT ![r] = @ + 1]
          /\ vm_permit' = [vm_permit EXCEPT ![r] = "dropped"]
          /\ \E e \in {"InvalidOverrides", "SerializationError"} :
                response' = [response EXCEPT ![r] = Some(Err(e, None))]
          /\ pc' = [pc EXCEPT ![r] = "done"]
          /\ UNCHANGED <<reqVars, connVars, poolVars, permit_refs, cellVars,
                         execVars, call_traces>>

    /\ UNCHANGED genesisVars
\* Lines 163-172: get_call_overrides()? and L2Tx::from_request(..)?.
trace_call_decode(r) ==
    /\ pc[r] = "tc_decode"
    /\ \/ /\ pc' = [pc EXCEPT ![r] = "tc_acquire"]
          /\ UNCHANGED <<reqVars, connVars, poolVars, permitVars, cellVars,
                         execVars, call_traces, response>>
       \/ /\ \E e \in {"InvalidOverrides", "SerializationError"} :
                return_from(r, Err(e, None))
          /\ UNCHANGED returnFrame

    /\ UNCHANGED genesisVars
\* Lines 175-181: vm_concurrency_limiter().acquire().await
trace_call_acquire(r) ==
    /\ pc[r] = "tc_acquire"
    /\ acquire /= "wait"
    /\ vm_permit' = [vm_permit EXCEPT ![r] = acquire]
    /\ IF acquire = "Some"
       THEN /\ permits' = permits - 1
            /\ permit_refs' = [permit_refs EXCEPT ![r] = 1]
            /\ granted' = [granted EXCEPT ![r] = @ + 1]
       ELSE UNCHANGED <<permits, permit_refs, granted>>
    /\ pc' = [pc EXCEPT ![r] = "tc_permit"]
    /\ UNCHANGED <<reqVars, connVars, closed, released, cellVars, execVars,
                   call_traces, response>>

    /\ UNCHANGED genesisVars
\* Line 182 without its `?`: the handler goes on whatever acquire returned.
trace_call_permit_unchecked(r) ==
    /\ pc[r] = "tc_permit"
    /\ pc' = [pc EXCEPT ![r] = "tc_execute"]
    /\ UNCHANGED <<reqVars, connVars, poolVars, permitVars, cellVars,
                   execVars, call_traces, response>>

    /\ UNCHANGED genesisVars
\* Line 182: vm_permit.context("cannot acquire VM permit")?, an anyhow error
\* that `?` turns into Web3Error::InternalError.
trace_call_permit(r) ==
    /\ pc[r] = "tc_permit"
    /\ IF vm_permit[r] = "None"
       THEN /\ return_from(r, Err("InternalError",
                                  Some("cannot acquire VM permit")))
            /\ UNCHANGED returnFrame
       ELSE /\ pc' = [pc EXCEPT ![r] = "tc_execute"]
            /\ UNCHANGED <<reqVars, connVars, poolVars, permitVars, cellVars,
                           execVars, call_traces, response>>

    /\ UNCHANGED genesisVars
\* Lines 184-203 with the permit given back before the execution starts
\* (the guard bound to `_` instead of a live name).
trace_call_execute_without_permit(r) ==
    /\ pc[r] = "tc_execute"
    /\ LET attach == ~only_top_call[r] IN
       /\ custom_tracers' = [custom_tracers EXCEPT ![r] = attach]
       /\ exec_tracers' = [exec_tracers EXCEPT ![r] = attach]
       /\ cell_refs' = [cell_refs EXCEPT ![r] = IF attach THEN 3 ELSE 1]
       /\ tracers_attached' = [tracers_attached EXCEPT ![r] =
                                  IF attach THEN @ + 1 ELSE @]
    /\ call_tracer_result' = [call_tracer_result EXCEPT ![r] = None]
    /\ drop_permit(r, permit_refs[r])
    /\ vm_permit' = [vm_permit EXCEPT ![r] = "dropped"]
    /\ invocations' = [invocations EXCEPT ![r] = @ + 1]
    /\ pc' = [pc EXCEPT ![r] = "tc_primary"]
    /\ UNCHANGED <<reqVars, connVars, closed, granted, cell_writes,
                   cell_reads, result, output, call_traces, response>>

    /\ UNCHANGED genesisVars
\* Lines 184-203 with the call tracer attached whatever only_top_call says.
trace_call_execute_always_tracing(r) ==
    /\ pc[r] = "tc_execute"
    /\ custom_tracers' = [custom_tracers EXCEPT ![r] = TRUE]
    /\ exec_tracers' = [exec_tracers EXCEPT ![r] = TRUE]
    /\ cell_refs' = [cell_refs EXCEPT ![r] = 3]
    /\ tracers_attached' = [tracers_attached EXCEPT ![r] = @ + 1]
    /\ call_tracer_result' = [call_tracer_result EXCEPT ![r] = None]
    /\ permit_refs' = [permit_refs EXCEPT ![r] =
                          IF vm_permit[r] = "Some" THEN @ + 1 ELSE @]
    /\ invocations' = [invocations EXCEPT ![r] = @ + 1]
    /\ pc' = [pc EXCEPT ![r] = "tc_primary"]
    /\ UNCHANGED <<reqVars, connVars, poolVars, vm_permit, granted, released,
                   cell_writes, cell_reads, result, output, call_traces,
                   response>>

    /\ UNCHANGED genesisVars
\* Lines 184-203: the cell and the tracers are made, and the primary
\* execution starts with a clone of the permit and a clone of the tracers.
trace_call_execute(r) ==
    /\ pc[r] = "tc_execute"
    /\ LET attach == ~only_top_call[r] IN
       /\ custom_tracers' = [custom_tracers EXCEPT ![r] = attach]
       /\ exec_tracers' = [exec_tracers EXCEPT ![r] = attach]
       /\ cell_refs' = [cell_refs EXCEPT ![r] = IF attach THEN 3 ELSE 1]
       /\ tracers_attached' = [tracers_attached EXCEPT ![r] =
                                  IF attach THEN @ + 1 ELSE @]
    /\ call_tracer_result' = [call_tracer_result EXCEPT ![r] = None]
    /\ permit_refs' = [permit_refs EXCEPT ![r] =
                          IF vm_permit[r] = "Some" THEN @ + 1 ELSE @]
    /\ invocations' = [invocations EXCEPT ![r] = @ + 1]
    /\ pc' = [pc EXCEPT ![r] = "tc_primary"]
    /\ UNCHANGED <<reqVars, connVars, poolVars, vm_permit, granted, released,
                   cell_writes, cell_reads, result, output, call_traces,
                   response>>

    /\ UNCHANGED genesisVars
\* execute_tx_eth_call runs to its end: the attached tracer may record the
\* calls, the invocation's permit and tracers are dropped, and the await of
\* lines 193-204 gets its Result.
primary_returns(r, D) ==
    /\ pc[r] = "tc_primary"
    /\ \E res \in {Ok(v) : v \in VmOutputs(D)} \cup {Err("ExecutorError", None)},
          w \in IF exec_tracers[r] THEN D.recordings ELSE {None} :
          /\ result' = [result EXCEPT ![r] = Some(res)]
          /\ call_tracer_result' = [call_tracer_result EXCEPT ![r] =
                                       cell_set(@, w)]
          /\ cell_writes' = [cell_writes EXCEPT ![r] =
                                IF w = None THEN @ ELSE @ + 1]
    /\ cell_refs' = [cell_refs EXCEPT ![r] =
                        IF exec_tracers[r] THEN @ - 1 ELSE @]
    /\ exec_tracers' = [exec_tracers EXCEPT ![r] = FALSE]
    /\ drop_permit(r, IF vm_permit[r] = "Some" THEN 1 ELSE 0)
    /\ pc' = [pc EXCEPT ![r] = "tc_validate"]
    /\ UNCHANGED <<reqVars, connVars, closed, vm_permit, granted,
                   custom_tracers, tracers_attached, cell_reads, invocations,
                   output, call_traces, response>>

    /\ UNCHANGED genesisVars
\* Lines 204-220 with custom_tracers.clone() handed to the validation-mode
\* execution, so that the local custom_tracers lives on to the end.
trace_call_validate_cloning(r) ==
    /\ pc[r] = "tc_validate"
    /\ IF ~result[r][1].ok
       THEN /\ return_from(r, result[r][1])
            /\ UNCHANGED returnFrame
       ELSE IF vm_permit[r] /= "Some"
       THEN /\ return_from(r, Err("ServerShuttingDown", None))
            /\ UNCHANGED returnFrame
       ELSE /\ vm_permit' = [vm_permit EXCEPT ![r] = "moved"]
            /\ exec_tracers' = [exec_tracers EXCEPT ![r] = custom_tracers[r]]
            /\ cell_refs' = [cell_refs EXCEPT ![r] =
                                IF custom_tracers[r] THEN @ + 1 ELSE @]
            /\ tracers_attached' = [tracers_attached EXCEPT ![r] =
                                       IF custom_tracers[r] THEN @ + 1 ELSE @]
            /\ invocations' = [invocations EXCEPT ![r] = @ + 1]
            /\ pc' = [pc EXCEPT ![r] = "tc_secondary"]
            /\ UNCHANGED <<reqVars, connVars, poolVars, permit_refs, granted,
                           released, call_tracer_result, custom_tracers,
                           cell_writes, cell_reads, result, output,
                           call_traces, response>>

    /\ UNCHANGED genesisVars
\* Lines 204-220 with a second permit acquired for the validation-mode
\* execution while the request still holds its first one.
trace_call_validate_reacquiring(r) ==
    /\ pc[r] = "tc_validate"
    /\ IF ~result[r][1].ok
       THEN /\ return_from(r, result[r][1])
            /\ UNCHANGED returnFrame
       ELSE IF acquire = "None"
       THEN /\ return_from(r, Err("ServerShuttingDown", None))
            /\ UNCHANGED returnFrame
       ELSE /\ acquire = "Some"
            /\ permits' = permits - 1
            /\ vm_permit' = [vm_permit EXCEPT ![r] = "moved"]
            /\ exec_tracers' = [exec_tracers EXCEPT ![r] = custom_tracers[r]]
            /\ custom_tracers' = [custom_tracers EXCEPT ![r] = FALSE]
            /\ tracers_attached' = [tracers_attached EXCEPT ![r] =
                                       IF custom_tracers[r] THEN @ + 1 ELSE @]
            /\ invocations' = [invocations EXCEPT ![r] = @ + 1]
            /\ pc' = [pc EXCEPT ![r] = "tc_secondary"]
            /\ UNCHANGED <<reqVars, connVars, closed, permit_refs, granted,
                           released, call_tracer_result, cell_refs,
                           cell_writes, cell_reads, result, output,
                           call_traces, response>>

    /\ UNCHANGED genesisVars
\* Lines 204-220 with the shutdown looked up again before the
\* validation-mode execution: a closed limiter fails the request.
trace_call_validate_checking_shutdown(r) ==
    /\ pc[r] = "tc_validate"
    /\ IF ~result[r][1].ok
       THEN /\ return_from(r, result[r][1])
            /\ UNCHANGED returnFrame
       ELSE IF vm_permit[r] /= "Some" \/ closed
       THEN /\ return_from(r, Err("ServerShuttingDown", None))
            /\ UNCHANGED returnFrame
       ELSE /\ vm_permit' = [vm_permit EXCEPT ![r] = "moved"]
            /\ exec_tracers' = [exec_tracers EXCEPT ![r] = custom_tracers[r]]
            /\ custom_tracers' = [custom_tracers EXCEPT ![r] = FALSE]
            /\ tracers_attached' = [tracers_attached EXCEPT ![r] =
                                       IF custom_tracers[r] THEN @ + 1 ELSE @]
            /\ invocations' = [invocations EXCEPT ![r] = @ + 1]
            /\ pc' = [pc EXCEPT ![r] = "tc_secondary"]
            /\ UNCHANGED <<reqVars, connVars, poolVars, permit_refs, granted,
                           released, call_tracer_result, cell_refs,
                           cell_writes, cell_reads, result, output,
                           call_traces, response>>

    /\ UNCHANGED genesisVars
\* Lines 204-220: the `?` on the primary execution's Result and the check
\* of the permit, then the validation-mode execution starts; vm_permit and
\* custom_tracers are moved into it.
trace_call_validate(r) ==
    /\ pc[r] = "tc_validate"
    /\ IF ~result[r][1].ok
       THEN /\ return_from(r, result[r][1])
            /\ UNCHANGED returnFrame
       ELSE IF vm_permit[r] /= "Some"
       THEN /\ return_from(r, Err("ServerShuttingDown", None))
            /\ UNCHANGED returnFrame
       ELSE /\ vm_permit' = [vm_permit EXCEPT ![r] = "moved"]
            /\ exec_tracers' = [exec_tracers EXCEPT ![r] = custom_tracers[r]]
            /\ custom_tracers' = [custom_tracers EXCEPT ![r] = FALSE]
            /\ tracers_attached' = [tracers_attached EXCEPT ![r] =
                                       IF custom_tracers[r] THEN @ + 1 ELSE @]
            /\ invocations' = [invocations EXCEPT ![r] = @ + 1]
            /\ pc' = [pc EXCEPT ![r] = "tc_secondary"]
            /\ UNCHANGED <<reqVars, connVars, poolVars, permit_refs, granted,
                           released, call_tracer_result, cell_refs,
                           cell_writes, cell_reads, result, output,
                           call_traces, response>>

    /\ UNCHANGED genesisVars
\* execute_tx_in_sandbox runs to its end, as the primary execution does; the
\* await of lines 210-221 gets its Result.
secondary_returns(r, D) ==
    /\ pc[r] = "tc_secondary"
    /\ \E res \in {Ok("logs"), Err("ValidationError", None)},
          w \in IF exec_tracers[r] THEN D.recordings ELSE {None} :
          /\ output' = [output EXCEPT ![r] = Some(res)]
          /\ call_tracer_result' = [call_tracer_result EXCEPT ![r] =
                                       cell_set(@, w)]
          /\ cell_writes' = [cell_writes EXCEPT ![r] =
                                IF w = None THEN @ ELSE @ + 1]
    /\ cell_refs' = [cell_refs EXCEPT ![r] =
                        IF exec_tracers[r] THEN @ - 1 ELSE @]
    /\ exec_tracers' = [exec_tracers EXCEPT ![r] = FALSE]
    /\ drop_permit(r, 1)
    /\ pc' = [pc EXCEPT ![r] = "tc_assemble"]
    /\ UNCHANGED <<reqVars, connVars, closed, vm_permit, granted,
                   custom_tracers, tracers_attached, cell_reads, invocations,
                   result, call_traces, response>>

    /\ UNCHANGED genesisVars
\* Display of a revert or halt reason (to_string).
to_string(bytes) == <<"string", bytes>>

\* Call::new_high_level: the root call, the recorded calls below it.
new_high_level(gas_used, out, revert_reason, calls) ==
    Call(gas_used, out, revert_reason, calls)

\* From<Call> for DebugCall: the same tree, each node with its event list.
RECURSIVE debug_calls(_)
debug_call(call) ==
    [gas_used |-> call.gas_used, output |-> call.output,
     revert_reason |-> call.revert_reason, events |-> <<>>,
     calls |-> debug_calls(call.calls)]
debug_calls(calls) ==
    IF calls = <<>> THEN <<>>
    ELSE <<debug_call(Head(calls))>> \o debug_calls(Tail(calls))

\* Arc::try_unwrap(call_tracer_result).unwrap(): Ok only for the sole owner.
try_unwrap_ok(r) == cell_refs[r] = 1

\* Lines 225-228 with the revert output kept as the call's output.
output_and_revert_reason_keeping_output(res) ==
    [output |-> res.data,
     revert_reason |-> IF res.kind = "Success" THEN None
                       ELSE Some(to_string(res.data))]

\* Lines 225-228: the output and the revert reason of a Success or Revert.
output_and_revert_reason(res) ==
    IF res.kind = "Success"
    THEN [output |-> res.data, revert_reason |-> None]
    ELSE [output |-> "0x", revert_reason |-> Some(to_string(res.data))]

\* Lines 221-253: the `?` on the secondary execution's Result and the log;
\* then the outcome is matched, the cell is claimed and the DebugCall built.
trace_call_assemble(r) ==
    /\ pc[r] = "tc_assemble"
    /\ LET res == result[r][1].value[1]
           trace == IF call_tracer_result[r] = None THEN <<>>
                    ELSE call_tracer_result[r][1]
       IN  IF ~output[r][1].ok
           THEN /\ return_from(r, output[r][1])
                /\ UNCHANGED cell_reads
           ELSE IF res.result.kind = "Halt"
           THEN /\ return_from(r, Err("SubmitTransactionError",
                                      Some(to_string(res.result.data))))
                /\ UNCHANGED cell_reads
           ELSE IF ~try_unwrap_ok(r)
           THEN /\ return_from(r, Err("panic", Some("try_unwrap")))
                /\ UNCHANGED cell_reads
           ELSE LET matched == output_and_revert_reason(res.result)
                    call == new_high_level(res.gas_used, matched.output,
                                           matched.revert_reason, trace)
                IN  /\ return_from(r, Ok([debug_call(call) EXCEPT
                                             !.events = res.events]))
                    /\ cell_reads' = [cell_reads EXCEPT ![r] = @ + 1]
    /\ UNCHANGED <<reqVars, conn_acquired, closed, granted,
                   call_tracer_result, exec_tracers, tracers_attached,
                   cell_writes, execVars, call_traces>>

    /\ UNCHANGED genesisVars
----------------------------------------------------------------------------
(* debug_trace_block_impl, debug_trace_block_flat_impl *)

\* The stored call as the DebugCall the historical operations return.
stored_debug_call(call_trace, top_only) ==
    IF top_only THEN [debug_call(call_trace) EXCEPT !.calls = <<>>]
    ELSE debug_call(call_trace)

\* Lines 80-89: every stored call becomes a ResultDebugCall.
RECURSIVE block_debug_calls(_, _)
block_debug_calls(traces, top_only) ==
    IF traces = <<>> THEN <<>>
    ELSE <<[result |-> stored_debug_call(Head(traces), top_only)]>>
         \o block_debug_calls(Tail(traces), top_only)

\* One DebugCallFlat for the node, then its children in order, each with the
\* node's trace address extended by the child's index.
RECURSIVE flatten_call(_, _), flatten_children(_, _, _),
          flatten_children_one_based(_, _, _)
flatten_call(call, trace_address) ==
    <<[gas_used |-> call.gas_used, output |-> call.output,
       revert_reason |-> call.revert_reason,
       trace_address |-> trace_address, subtraces |-> Len(call.calls)]>>
    \o flatten_children(call.calls, trace_address, 0)

\* The children numbered from one instead of zero.
flatten_children_one_based(calls, trace_address, index) ==
    IF calls = <<>> THEN <<>>
    ELSE flatten_call(Head(calls), Append(trace_address, index + 1))
         \o flatten_children_one_based(Tail(calls), trace_address, index + 1)

flatten_children(calls, trace_address, index) ==
    IF calls = <<>> THEN <<>>
    ELSE flatten_call(Head(calls), Append(trace_address, index))
         \o flatten_children(Tail(calls), trace_address, index + 1)

RECURSIVE flatten_debug_calls(_)
flatten_debug_calls(calls) ==
    IF calls = <<>> THEN <<>>
    ELSE flatten_call(Head(calls).result, <<>>)
         \o flatten_debug_calls(Tail(calls))

\* Lines 98-100: the flat operation passes an error on and flattens the rest.
block_result(m, res) ==
    IF m = "traceBlockFlat" /\ res.ok
    THEN Ok(flatten_debug_calls(res.value[1])) ELSE res

\* A traceBlock or traceBlockFlat request arrives with its arguments.
trace_block_begin(r, D) ==
    /\ pc[r] = "idle"
    /\ r \in D.reqs
    /\ \E m \in {"traceBlock", "traceBlockFlat"},
          b \in {"Pending", "Number"}, otc \in D.options :
          /\ method' = [method EXCEPT ![r] = m]
          /\ block_id' = [block_id EXCEPT ![r] = b]
          /\ only_top_call' = [only_top_call EXCEPT ![r] = otc]
    /\ pc' = [pc EXCEPT ![r] = "tb_start"]
    /\ UNCHANGED <<connVars, poolVars, permitVars, cellVars, execVars,
                   call_traces, response>>

    /\ UNCHANGED genesisVars
\* Lines 61-69 with the pending check left out.
trace_block_start_unchecked(r) ==
    /\ pc[r] = "tb_start"
    /\ pc' = [pc EXCEPT ![r] = "tb_connection"]
    /\ UNCHANGED <<reqVars, connVars, poolVars, permitVars, cellVars,
                   execVars, call_traces, response>>

    /\ UNCHANGED genesisVars
\* Lines 61-69: the pending block has no traces.
trace_block_start(r) ==
    /\ pc[r] = "tb_start"
    /\ IF block_id[r] = "Pending"
       THEN /\ return_from(r, block_result(method[r], Ok(<<>>)))
            /\ UNCHANGED returnFrame
       ELSE /\ pc' = [pc EXCEPT ![r] = "tb_connection"]
            /\ UNCHANGED <<reqVars, connVars, poolVars, permitVars, cellVars,
                           execVars, call_traces, response>>

    /\ UNCHANGED genesisVars
\* Line 70: acquire_connection().await?
trace_block_acquire_connection(r) ==
    /\ pc[r] = "tb_connection"
    /\ \/ /\ connection' = [connection EXCEPT ![r] = TRUE]
          /\ conn_acquired' = [conn_acquired EXCEPT ![r] = TRUE]
          /\ pc' = [pc EXCEPT ![r] = "tb_resolve"]
          /\ UNCHANGED <<reqVars, poolVars, permitVars, cellVars, execVars,
                         call_traces, response>>
       \/ /\ return_from(r, Err("InternalError", Some("connection")))
          /\ UNCHANGED returnFrame

    /\ UNCHANGED genesisVars
\* Lines 71-73: resolve_block(..).await?
trace_block_resolve(r) ==
    /\ pc[r] = "tb_resolve"
    /\ \/ /\ pc' = [pc EXCEPT ![r] = "tb_query"]
          /\ UNCHANGED <<reqVars, connVars, poolVars, permitVars, cellVars,
                         execVars, call_traces, response>>
       \/ /\ return_from(r, Err("NoBlock", None))
          /\ UNCHANGED returnFrame

    /\ UNCHANGED genesisVars
\* Lines 75-90: the stored traces of the block, each as a ResultDebugCall.
trace_block_query(r, D) ==
    /\ pc[r] = "tb_query"
    /\ \/ \E traces \in D.forests :
            /\ call_traces' = [call_traces EXCEPT ![r] = Some(traces)]
            /\ return_from(r, block_result(method[r],
                     Ok(block_debug_calls(traces, only_top_call[r]))))
       \/ /\ return_from(r, Err("InternalError", Some("storage")))
          /\ UNCHANGED call_traces
    /\ UNCHANGED <<reqVars, conn_acquired, closed, granted,
                   call_tracer_result, exec_tracers, tracers_attached,
                   cell_writes, cell_reads, execVars>>

    /\ UNCHANGED genesisVars
----------------------------------------------------------------------------
(* debug_trace_transaction_impl *)

\* Lines 108-110: a traceTransaction request arrives with its options.
trace_transaction_begin(r, D) ==
    /\ pc[r] = "idle"
    /\ r \in D.reqs
    /\ \E otc \in D.options :
          only_top_call' = [only_top_call EXCEPT ![r] = otc]
    /\ method' = [method EXCEPT ![r] = "traceTransaction"]
    /\ pc' = [pc EXCEPT ![r] = "tt_connection"]
    /\ UNCHANGED <<block_id, connVars, poolVars, permitVars, cellVars,
                   execVars, call_traces, response>>

    /\ UNCHANGED genesisVars
\* Line 111 with a VM permit taken along with the connection.
trace_transaction_acquire_connection_with_permit(r) ==
    /\ pc[r] = "tt_connection"
    /\ \/ /\ acquire = "Some"
          /\ permits' = permits - 1
          /\ vm_permit' = [vm_permit EXCEPT ![r] = "Some"]
          /\ permit_refs' = [permit_refs EXCEPT ![r] = 1]
          /\ granted' = [granted EXCEPT ![r] = @ + 1]
          /\ connection' = [connection EXCEPT ![r] = TRUE]
          /\ conn_acquired' = [conn_acquired EXCEPT ![r] = TRUE]
          /\ pc' = [pc EXCEPT ![r] = "tt_query"]
          /\ UNCHANGED <<reqVars, closed, released, cellVars, execVars,
                         call_traces, response>>
       \/ /\ return_from(r, Err("InternalError", Some("connection")))
          /\ UNCHANGED returnFrame

    /\ UNCHANGED genesisVars
\* Line 111: acquire_connection().await?
trace_transaction_acquire_connection(r) ==
    /\ pc[r] = "tt_connection"
    /\ \/ /\ connection' = [connection EXCEPT ![r] = TRUE]
          /\ conn_acquired' = [conn_acquired EXCEPT ![r] = TRUE]
          /\ pc' = [pc EXCEPT ![r] = "tt_query"]
          /\ UNCHANGED <<reqVars, poolVars, permitVars, cellVars, execVars,
                         call_traces, response>>
       \/ /\ return_from(r, Err("InternalError", Some("connection")))
          /\ UNCHANGED returnFrame

    /\ UNCHANGED genesisVars
\* Lines 117-123 with a missing trace reported as an error.
transaction_result_not_found(call_trace, top_only) ==
    IF call_trace = None THEN Err("NotFound", None)
    ELSE Ok(Some(stored_debug_call(call_trace[1], top_only)))

\* Lines 117-123: Ok(call_trace.map(..)), None when nothing is stored.
transaction_result(call_trace, top_only) ==
    Ok(IF call_trace = None THEN None
       ELSE Some(stored_debug_call(call_trace[1], top_only)))

\* Lines 112-123: the stored trace of the transaction, if there is one.
trace_transaction_query(r, D) ==
    /\ pc[r] = "tt_query"
    /\ \/ \E call_trace \in {None} \cup
                 {Some(f[1]) : f \in {g \in D.forests : Len(g) = 1}} :
            /\ call_traces' = [call_traces EXCEPT ![r] = Some(call_trace)]
            /\ return_from(r, transaction_result(call_trace,
                                                  only_top_call[r]))
       \/ /\ return_from(r, Err("InternalError", Some("storage")))
          /\ UNCHANGED call_traces
    /\ UNCHANGED <<reqVars, conn_acquired, closed, granted,
                   call_tracer_result, exec_tracers, tracers_attached,
                   cell_writes, cell_reads, execVars>>

    /\ UNCHANGED genesisVars
----------------------------------------------------------------------------
(* zk_inception: chain genesis *)

Databases == {"server", "prover"}

\* One call of drop_db_if_exists, init_db, migrate_db or run_server_genesis
\* and whether it returned Ok.
DbCall(op, db, ok) == [op |-> op, db |-> db, ok |-> ok]

\* Where initialize_databases stands before each call on each database, and
\* where it goes after a database's migration.
Position ==
    [drop    |-> [server |-> "id_drop_server", prover |-> "id_drop_prover"],
     init    |-> [server |-> "id_init_server", prover |-> "id_init_prover"],
     migrate |-> [server |-> "id_migrate_server",
                  prover |-> "id_migrate_prover"]]
AfterMigrate == [server |-> "id_drop_prover", prover |-> "g_run_server"]

\* A `?` on an Err: genesis returns it and nothing after it runs.
genesis_return(res) ==
    /\ genesis_pc' = "done"
    /\ genesis_result' = Some(res)

\* Lines 43-47: genesis is called with its arguments and configuration.
genesis_begin ==
    /\ genesis_pc = "idle"
    /\ dont_drop' \in BOOLEAN
    /\ prover_version' \in {"NoProofs", "Gpu"}
    /\ verbose' \in BOOLEAN
    /\ genesis_pc' = "g_rocks_db"
    /\ UNCHANGED <<proof_sending_mode, genesis_calls, debug_log,
                   genesis_result>>
    /\ UNCHANGED debugVars

\* Lines 48-53: create_dir?, recreate_rocksdb_dirs?, get_general_config?
\* and set_rocks_db_config?.
genesis_rocks_db ==
    /\ genesis_pc = "g_rocks_db"
    /\ \/ /\ genesis_pc' = "g_general"
          /\ UNCHANGED genesis_result
       \/ genesis_return(Err("anyhow", Some("rocks_db")))
    /\ UNCHANGED <<dont_drop, prover_version, verbose, proof_sending_mode,
                   genesis_calls, debug_log>>
    /\ UNCHANGED debugVars

\* Lines 54-57: the proof sending mode, then general.save_with_base_path?.
genesis_save_general ==
    /\ genesis_pc = "g_general"
    /\ \/ /\ proof_sending_mode' =
                IF prover_version /= "NoProofs" THEN "ONLY_REAL_PROOFS"
                ELSE proof_sending_mode
          /\ genesis_pc' = "g_secrets"
          /\ UNCHANGED genesis_result
       \/ /\ genesis_return(Err("anyhow", Some("general")))
          /\ UNCHANGED proof_sending_mode
    /\ UNCHANGED <<dont_drop, prover_version, verbose, genesis_calls,
                   debug_log>>
    /\ UNCHANGED debugVars

\* Lines 59-61: get_secrets_config?, set_databases, save_with_base_path?.
genesis_secrets ==
    /\ genesis_pc = "g_secrets"
    /\ \/ /\ genesis_pc' = Position.drop.server
          /\ UNCHANGED genesis_result
       \/ genesis_return(Err("anyhow", Some("secrets")))
    /\ UNCHANGED <<dont_drop, prover_version, verbose, proof_sending_mode,
                   genesis_calls, debug_log>>
    /\ UNCHANGED debugVars

\* The call of op on db returns: Ok goes on to pc, Err is returned by
\* initialize_databases and, at line 81, by genesis.
db_call(op, db, to) ==
    \E ok \in BOOLEAN :
        /\ genesis_calls' = Append(genesis_calls, DbCall(op, db, ok))
        /\ IF ok
           THEN /\ genesis_pc' = to
                /\ UNCHANGED genesis_result
           ELSE genesis_return(Err("anyhow", Some(op)))

\* Lines 100-106 and 116-122 with the database dropped whatever dont_drop.
initialize_databases_drop_always(db) ==
    /\ genesis_pc = Position.drop[db]
    /\ debug_log' = IF verbose THEN Append(debug_log, db) ELSE debug_log
    /\ db_call("drop_db_if_exists", db, Position.init[db])
    /\ UNCHANGED <<dont_drop, prover_version, verbose, proof_sending_mode>>
    /\ UNCHANGED debugVars

\* Lines 100-106 (server) and 116-122 (prover): the debug message when
\* verbose, then drop_db_if_exists(..)? unless dont_drop.
initialize_databases_drop(db) ==
    /\ genesis_pc = Position.drop[db]
    /\ debug_log' = IF verbose THEN Append(debug_log, db) ELSE debug_log
    /\ IF dont_drop
       THEN /\ genesis_pc' = Position.migrate[db]
            /\ UNCHANGED <<genesis_calls, genesis_result>>
       ELSE db_call("drop_db_if_exists", db, Position.init[db])
    /\ UNCHANGED <<dont_drop, prover_version, verbose, proof_sending_mode>>
    /\ UNCHANGED debugVars

\* Lines 107 and 123: init_db(..)?, inside the same `if !dont_drop`.
initialize_databases_init(db) ==
    /\ genesis_pc = Position.init[db]
    /\ db_call("init_db", db, Position.migrate[db])
    /\ UNCHANGED <<dont_drop, prover_version, verbose, proof_sending_mode,
                   debug_log>>
    /\ UNCHANGED debugVars

\* Lines 109-114 and 125-131: migrate_db(..)?; after the prover's migration
\* initialize_databases returns Ok and genesis goes on at line 82.
initialize_databases_migrate(db) ==
    /\ genesis_pc = Position.migrate[db]
    /\ db_call("migrate_db", db, AfterMigrate[db])
    /\ UNCHANGED <<dont_drop, prover_version, verbose, proof_sending_mode,
                   debug_log>>
    /\ UNCHANGED debugVars

\* Lines 84-88 and 136-139: run_server_genesis(config, shell)?, then Ok(()).
run_server_genesis ==
    /\ genesis_pc = "g_run_server"
    /\ \E ok \in BOOLEAN :
          /\ genesis_calls' = Append(genesis_calls,
                                     DbCall("run_server_genesis", "none", ok))
          /\ genesis_return(IF ok THEN Ok("unit")
                            ELSE Err("anyhow", Some("run_server_genesis")))
    /\ UNCHANGED <<dont_drop, prover_version, verbose, proof_sending_mode,
                   debug_log>>
    /\ UNCHANGED debugVars

----------------------------------------------------------------------------
(* Specifications *)

\* One step of a traceCall request r.
TraceCallStep(r, D) ==
    \/ trace_call_begin(r, D)
    \/ trace_call_acquire_connection(r)
    \/ trace_call_resolve_block_args(r)
    \/ trace_call_default_gas(r)
    \/ trace_call_decode(r)
    \/ trace_call_acquire(r)
    \/ trace_call_permit(r)
    \/ trace_call_execute(r)
    \/ primary_returns(r, D)
    \/ trace_call_validate(r)
    \/ secondary_returns(r, D)
    \/ trace_call_assemble(r)

\* One step of request r, whatever its method.
ReqStep(r, D) ==
    \/ TraceCallStep(r, D)
    \/ trace_block_begin(r, D)
    \/ trace_block_start(r)
    \/ trace_block_acquire_connection(r)
    \/ trace_block_resolve(r)
    \/ trace_block_query(r, D)
    \/ trace_transaction_begin(r, D)
    \/ trace_transaction_acquire_connection(r)
    \/ trace_transaction_query(r, D)

Step(D) ==
    \/ close
    \/ \E r \in Reqs : ReqStep(r, D)

\* Several requests at once, the executor's and the storage's answers small.
Next == Step(Small)
Spec == Init /\ [][Next]_vars

\* One request, the answers drawn from the rich domains.
NextData == Step(Rich)
SpecData == Init /\ [][NextData]_vars

\* Several traceCall requests at once under a fair scheduler: a request that
\* can take a step is not passed over for ever. The shutdown need not happen.
NextLive ==
    \/ close
    \/ \E r \in Reqs : TraceCallStep(r, Small)
SpecLive ==
    Init /\ [][NextLive]_vars /\ \A r \in Reqs : WF_vars(TraceCallStep(r, Small))

\* One run of the chain genesis command.
NextGenesis ==
    \/ genesis_begin
    \/ genesis_rocks_db
    \/ genesis_save_general
    \/ genesis_secrets
    \/ \E db \in Databases :
          \/ initialize_databases_drop(db)
          \/ initialize_databases_init(db)
          \/ initialize_databases_migrate(db)
    \/ run_server_genesis
SpecGenesis == Init /\ [][NextGenesis]_vars

----------------------------------------------------------------------------
(* Properties *)

Executing(r) == pc[r] \in {"tc_primary", "tc_secondary"}
Finished(r) == pc[r] = "done"
Outstanding == {r \in Reqs : granted[r] > released[r]}
Returned(r) == response[r][1]
PrimaryOutcome(r) == result[r][1].value[1].result
PrimaryCompleted(r) == result[r] /= None /\ result[r][1].ok

\* C1: at any moment at most Capacity executor invocations (primary or
\* secondary, over all requests) are in progress, and at most Capacity
\* permits are granted and not yet released.
C1_PermitBound ==
    /\ Cardinality({r \in Reqs : Executing(r)}) <= Capacity
    /\ Cardinality(Outstanding) <= Capacity
    /\ permits = Capacity - Cardinality(Outstanding)

\* Every permit is out, each with an invocation in progress, and a further
\* request waits for one.
C1_Witness ==
    /\ Cardinality({r \in Reqs : Executing(r)}) = Capacity
    /\ permits = 0
    /\ \E r \in Reqs : pc[r] = "tc_acquire"

\* C2: a permit a request acquired is released exactly once on every exit
\* path of the handler, and once every request has finished the limiter has
\* all its permits again.
C2_ReleasedExactlyOnce ==
    /\ \A r \in Reqs :
          /\ released[r] <= granted[r]
          /\ granted[r] <= 1
          /\ Finished(r) => released[r] = granted[r] /\ permit_refs[r] = 0
          /\ permit_refs[r] > 0 <=> granted[r] > released[r]
    /\ (\A r \in Reqs : pc[r] \in {"idle", "done"}) => permits = Capacity

\* Two requests have finished, one through an error of the primary
\* execution and one through an error of the secondary execution, each
\* having been granted a permit, and the limiter is full again.
C2_Witness ==
    \E r1, r2 \in Reqs :
        /\ Finished(r1) /\ Finished(r2)
        /\ granted[r1] = 1 /\ granted[r2] = 1
        /\ result[r1] /= None /\ ~result[r1][1].ok
        /\ output[r2] /= None /\ ~output[r2][1].ok
        /\ PrimaryOutcome(r2).kind = "Halt"
        /\ permits = Capacity

\* C3: within one request at most one executor invocation is handed a
\* writable handle of the cell, the cell is written at most once and read
\* at most once.
C3_SingleWriterSingleReader ==
    \A r \in Reqs :
        /\ tracers_attached[r] <= 1
        /\ cell_writes[r] <= 1
        /\ cell_reads[r] <= 1

\* C4: whenever the handler stands before the claim of the cell no executor
\* invocation runs and the handler's call_tracer_result is the only handle,
\* so the claim never panics; a cell nothing was written to gives no calls.
C4_ClaimBySoleOwner ==
    \A r \in Reqs :
        /\ pc[r] = "tc_assemble" =>
              /\ cell_refs[r] = 1
              /\ ~exec_tracers[r] /\ ~custom_tracers[r]
              /\ ~Executing(r)
        /\ Finished(r) => Returned(r).error /= "panic"
        /\ (Finished(r) /\ method[r] = "traceCall" /\ Returned(r).ok
              /\ call_tracer_result[r] = None)
           => Returned(r).value[1].calls = <<>>

\* A fully traced request whose two invocations both held a handle and
\* wrote nothing has claimed the cell and returned a call without children.
C4_Witness ==
    \E r \in Reqs :
        /\ Finished(r) /\ Returned(r).ok
        /\ method[r] = "traceCall" /\ ~only_top_call[r]
        /\ tracers_attached[r] = 2 /\ cell_reads[r] = 1
        /\ call_tracer_result[r] = None
        /\ Returned(r).value[1].calls = <<>>

\* C5: with onlyTopCall a traceCall request attaches no tracer to any of its
\* executor invocations and returns a call without children; traceBlock and
\* traceTransaction return every stored root, its children cleared.
C5_OnlyTopCall ==
    \A r \in Reqs : only_top_call[r] =>
        /\ method[r] = "traceCall" =>
              /\ tracers_attached[r] = 0 /\ ~exec_tracers[r]
              /\ cell_writes[r] = 0
              /\ (Finished(r) /\ Returned(r).ok)
                 => Returned(r).value[1].calls = <<>>
        /\ (method[r] = "traceBlock" /\ Finished(r) /\ Returned(r).ok
              /\ call_traces[r] /= None) =>
              LET calls == Returned(r).value[1] IN
              /\ Len(calls) = Len(call_traces[r][1])
              /\ \A i \in 1..Len(calls) : calls[i].result.calls = <<>>
        /\ (method[r] = "traceTransaction" /\ Finished(r) /\ Returned(r).ok) =>
              LET call == Returned(r).value[1] IN
              /\ call = None <=> call_traces[r][1] = None
              /\ call /= None => call[1].calls = <<>>

\* A traceCall request with onlyTopCall has run both executions and
\* returned its DebugCall.
C5_Witness ==
    \E r \in Reqs :
        /\ method[r] = "traceCall" /\ only_top_call[r]
        /\ Finished(r) /\ Returned(r).ok
        /\ invocations[r] = 2

\* C6: a request whose primary execution returned Halt fails with the
\* submission error that carries the halt reason, whatever the other steps
\* of the request did.
C6_HaltFailsWithReason ==
    \A r \in Reqs :
        (Finished(r) /\ method[r] = "traceCall" /\ PrimaryCompleted(r)
           /\ PrimaryOutcome(r).kind = "Halt")
        => Returned(r) = Err("SubmitTransactionError",
                             Some(to_string(PrimaryOutcome(r).data)))

\* C7: a request whose primary execution returned Success or Revert returns
\* its DebugCall whether the secondary execution succeeded or failed.
C7_SecondaryNotPropagated ==
    \A r \in Reqs :
        (Finished(r) /\ method[r] = "traceCall" /\ PrimaryCompleted(r)
           /\ PrimaryOutcome(r).kind \in {"Success", "Revert"}
           /\ output[r] /= None)
        => Returned(r).ok

\* C8: an executor invocation is in progress only while its request holds a
\* granted, unreleased permit; a request whose acquire yielded no permit
\* fails and never starts an invocation.
C8_NoPermitNoExecution ==
    \A r \in Reqs :
        /\ Executing(r) =>
              /\ vm_permit[r] \in {"Some", "moved"}
              /\ permit_refs[r] >= 1
              /\ granted[r] = 1 /\ released[r] = 0
        /\ vm_permit[r] = "None" =>
              /\ invocations[r] = 0 /\ granted[r] = 0
              /\ pc[r] \in {"tc_permit", "done"}
              /\ Finished(r) => ~Returned(r).ok

\* A request was refused its permit by the closed limiter and has failed
\* while another request's invocation is still in progress.
C8_Witness ==
    \E r1, r2 \in Reqs :
        /\ vm_permit[r1] = "None" /\ Finished(r1) /\ ~Returned(r1).ok
        /\ closed
        /\ Executing(r2)

\* C9: a request whose acquire yielded no permit fails with the shutdown
\* error, not with an internal error.
C9_ShutdownError ==
    \A r \in Reqs :
        (Finished(r) /\ vm_permit[r] = "None")
        => Returned(r).error = "ServerShuttingDown"

\* C10: traceBlock and traceBlockFlat on the pending block return the empty
\* sequence at once: no connection, no block resolution, no storage query,
\* no permit and no executor invocation.
C10_PendingIsEmpty ==
    \A r \in Reqs :
        (method[r] \in {"traceBlock", "traceBlockFlat"}
           /\ block_id[r] = "Pending") =>
        /\ pc[r] \in {"tb_start", "done"}
        /\ ~connection[r] /\ ~conn_acquired[r]
        /\ call_traces[r] = None
        /\ vm_permit[r] = "unset" /\ granted[r] = 0
        /\ invocations[r] = 0 /\ cell_refs[r] = 0
        /\ Finished(r) => Returned(r) = Ok(<<>>)

\* traceBlockFlat with onlyTopCall on the pending block has returned.
C10_Witness ==
    \E r \in Reqs :
        /\ method[r] = "traceBlockFlat" /\ block_id[r] = "Pending"
        /\ only_top_call[r]
        /\ Finished(r) /\ Returned(r) = Ok(<<>>)


\* C11: on the historical path a missing trace is a success: traceTransaction
\* returns None for a hash nothing is stored for, traceBlock returns the
\* empty sequence for a block without stored traces, and a request fails
\* only when the connection, the block resolution or the query failed.
C11_AbsenceIsSuccess ==
    \A r \in Reqs :
        (Finished(r)
           /\ method[r] \in {"traceBlock", "traceBlockFlat", "traceTransaction"})
        =>
        /\ (method[r] = "traceTransaction" /\ call_traces[r] = Some(None))
           => Returned(r) = Ok(None)
        /\ (method[r] = "traceBlock" /\ call_traces[r] = Some(<<>>))
           => Returned(r) = Ok(<<>>)
        /\ call_traces[r] /= None => Returned(r).ok
        /\ ~Returned(r).ok =>
              /\ call_traces[r] = None
              /\ \/ Returned(r) = Err("InternalError", Some("connection"))
                 \/ Returned(r) = Err("NoBlock", None)
                 \/ Returned(r) = Err("InternalError", Some("storage"))

\* traceTransaction has found nothing stored for its hash and has returned.
C11_Witness ==
    \E r \in Reqs :
        /\ method[r] = "traceTransaction" /\ Finished(r)
        /\ conn_acquired[r]
        /\ call_traces[r] = Some(None)
        /\ Returned(r) = Ok(None)

\* C12: the DebugCall of a traceCall request carries the returned bytes and
\* no revert reason after Success, no output and the revert message after
\* Revert, and, with full tracing, the calls recorded in the tracer cell.
C12_OutcomeMapping ==
    \A r \in Reqs :
        (Finished(r) /\ method[r] = "traceCall" /\ Returned(r).ok) =>
        LET call == Returned(r).value[1]
            outcome == PrimaryOutcome(r)
        IN  /\ outcome.kind \in {"Success", "Revert"}
            /\ outcome.kind = "Success" =>
                  /\ call.output = outcome.data
                  /\ call.revert_reason = None
            /\ outcome.kind = "Revert" =>
                  /\ call.output = "0x"
                  /\ call.revert_reason = Some(to_string(outcome.data))
            /\ ~only_top_call[r] =>
                  call.calls = IF call_tracer_result[r] = None THEN <<>>
                               ELSE debug_calls(call_tracer_result[r][1])

\* A fully traced request whose primary execution reverted has returned a
\* DebugCall with the calls recorded in the cell.
C12_Witness ==
    \E r \in Reqs :
        /\ Finished(r) /\ method[r] = "traceCall" /\ Returned(r).ok
        /\ ~only_top_call[r]
        /\ PrimaryOutcome(r).kind = "Revert"
        /\ call_tracer_result[r] /= None
        /\ Len(Returned(r).value[1].calls) > 0


\* Nodes of a sequence of calls, with all their descendants.
RECURSIVE CountCalls(_)
CountCalls(calls) ==
    IF calls = <<>> THEN 0
    ELSE 1 + CountCalls(Head(calls).calls) + CountCalls(Tail(calls))

\* Nodes of the hierarchical traces of a block.
RECURSIVE CountTraces(_)
CountTraces(traces) ==
    IF traces = <<>> THEN 0
    ELSE 1 + CountCalls(Head(traces).result.calls) + CountTraces(Tail(traces))

\* The node of call that the child indices of address lead to.
RECURSIVE HasNodeAt(_, _), NodeAt(_, _)
HasNodeAt(call, address) ==
    \/ address = <<>>
    \/ /\ Head(address) + 1 \in 1..Len(call.calls)
       /\ HasNodeAt(call.calls[Head(address) + 1], Tail(address))
NodeAt(call, address) ==
    IF address = <<>> THEN call
    ELSE NodeAt(call.calls[Head(address) + 1], Tail(address))

\* Pre-order of two nodes of one tree: an ancestor first, else the smaller
\* index where the two addresses part.
PreOrderBefore(a, b) ==
    \E k \in 0..Len(a) :
        /\ k <= Len(b)
        /\ \A i \in 1..k : a[i] = b[i]
        /\ \/ k = Len(a) /\ k < Len(b)
           \/ k < Len(a) /\ k < Len(b) /\ a[k + 1] < b[k + 1]

\* The root (1-based, in the order of the hierarchical traces) that the
\* i-th flat entry belongs to: the roots are the entries of address <<>>.
RootOf(flat, i) == Cardinality({j \in 1..i : flat[j].trace_address = <<>>})

\* C13: the flat trace traceBlockFlat returns is the pre-order enumeration
\* of the traces traceBlock returns for the same arguments: as many entries
\* as nodes, the first with trace address <<>>, each entry's subtraces the
\* number of children of its node, and each child at its parent's address
\* extended by its 0-based index among the siblings.
C13_FlatIsPreOrder ==
    \A r \in Reqs :
        (Finished(r) /\ method[r] = "traceBlockFlat" /\ Returned(r).ok
           /\ call_traces[r] /= None) =>
        LET traces == block_debug_calls(call_traces[r][1], only_top_call[r])
            flat == Returned(r).value[1]
            addr(i) == flat[i].trace_address
        IN  /\ Len(flat) = CountTraces(traces)
            /\ flat /= <<>> => addr(1) = <<>>
            /\ RootOf(flat, Len(flat)) = Len(traces)
            /\ \A i \in 1..Len(flat) :
                  LET root == traces[RootOf(flat, i)].result IN
                  /\ HasNodeAt(root, addr(i))
                  /\ flat[i].subtraces = Len(NodeAt(root, addr(i)).calls)
                  /\ \A k \in 0..(flat[i].subtraces - 1) :
                        \E j \in (i + 1)..Len(flat) :
                            /\ RootOf(flat, j) = RootOf(flat, i)
                            /\ addr(j) = Append(addr(i), k)
                  /\ \A j \in (i + 1)..Len(flat) :
                        RootOf(flat, j) = RootOf(flat, i)
                        => PreOrderBefore(addr(i), addr(j))

\* traceBlockFlat has returned the three entries of a chain of three calls.
C13_Witness ==
    \E r \in Reqs :
        /\ Finished(r) /\ method[r] = "traceBlockFlat" /\ Returned(r).ok
        /\ call_traces[r] /= None /\ ~only_top_call[r]
        /\ LET flat == Returned(r).value[1] IN
           /\ Len(flat) = 3
           /\ flat[1].trace_address = <<>> /\ flat[1].subtraces = 1
           /\ flat[2].trace_address = <<0>> /\ flat[2].subtraces = 1
           /\ flat[3].trace_address = <<0, 0>> /\ flat[3].subtraces = 0


\* C14: a traceCall request holds no storage connection while it waits for
\* its permit, while it holds the permit, or while one of its executor
\* invocations is in progress: the connection of the context resolution is
\* released before the permit is requested.
C14_NoConnectionAcrossExecution ==
    \A r \in Reqs :
        (method[r] = "traceCall"
           /\ \/ pc[r] \in {"tc_acquire", "tc_permit", "tc_execute",
                            "tc_primary", "tc_validate", "tc_secondary",
                            "tc_assemble"}
              \/ permit_refs[r] > 0)
        => ~connection[r]

\* A request that resolved its block over a connection waits, without the
\* connection, for the permit another request's invocation holds.
C14_Witness ==
    \E r1, r2 \in Reqs :
        /\ pc[r1] = "tc_acquire" /\ conn_acquired[r1] /\ ~connection[r1]
        /\ permits = 0
        /\ Executing(r2) /\ ~connection[r2]


\* The calls a claim of the cell yields (take().unwrap_or_default()).
TraceOf(cell) == IF cell = None THEN <<>> ELSE cell[1]

\* C15: the DebugCall a traceCall request returns comes from the primary
\* execution only. The DebugCall is built from the primary result and from
\* the calls the cell yields, so whenever the request goes on to return a
\* DebugCall the secondary execution leaves those calls as the primary
\* execution left them, also when that left the cell unwritten.
C15_PrimaryOnly ==
    [][\A r \in Reqs :
          (pc[r] = "tc_secondary" /\ pc'[r] = "tc_assemble"
             /\ output'[r][1].ok /\ PrimaryOutcome(r).kind /= "Halt")
          => TraceOf(call_tracer_result'[r]) = TraceOf(call_tracer_result[r])
      ]_vars


\* C16: a request never waits for a permit while it holds one, and under a
\* fair scheduler every request that has started finishes: no request is
\* left waiting for ever and no state without a next step is reached before
\* all started requests have finished.
C16_EveryRequestFinishes ==
    /\ [](\A r \in Reqs : pc[r] = "tc_acquire" => permit_refs[r] = 0)
    /\ \A r \in Reqs : (pc[r] /= "idle") ~> Finished(r)

\* More requests than permits have each been granted a permit, run both
\* executions and finished, with the limiter still open.
C16_Witness ==
    /\ NumReqs > Capacity
    /\ ~closed
    /\ \A r \in Reqs :
          Finished(r) /\ granted[r] = 1 /\ invocations[r] = 2


Historical == {"traceBlock", "traceBlockFlat", "traceTransaction"}

\* C17: a traceBlock, traceBlockFlat or traceTransaction request never
\* acquires a VM permit, never creates a tracer cell and never starts an
\* executor invocation, and until it has finished it can take its next step
\* whatever the limiter's state.
C17_HistoricalBypass ==
    \A r \in Reqs :
        method[r] \in Historical =>
            /\ vm_permit[r] = "unset"
            /\ granted[r] = 0 /\ permit_refs[r] = 0
            /\ cell_refs[r] = 0 /\ call_tracer_result[r] = None
            /\ ~custom_tracers[r] /\ ~exec_tracers[r]
            /\ tracers_attached[r] = 0
            /\ invocations[r] = 0
            /\ result[r] = None /\ output[r] = None
            /\ (pc[r] \notin {"idle", "done"} => ENABLED ReqStep(r, Small))

\* A historical request has returned its traces while the only permit is
\* held by a traceCall request and the limiter is closed.
C17_Witness ==
    \E r1, r2 \in Reqs :
        /\ method[r1] \in Historical /\ conn_acquired[r1]
        /\ Finished(r1) /\ Returned(r1).ok
        /\ method[r2] = "traceCall" /\ Executing(r2)
        /\ permits = 0 /\ closed

\* C18: a traceCall request that has not passed decoding holds no permit,
\* has no tracer cell and has started no execution; when the overrides or
\* the decoding are refused the request returns that error in this state,
\* and every permit missing from the limiter is held by another request.
C18_DecodeBeforePermit ==
    \A r \in Reqs :
        LET untouched ==
              /\ vm_permit[r] = "unset"
              /\ granted[r] = 0 /\ released[r] = 0 /\ permit_refs[r] = 0
              /\ cell_refs[r] = 0 /\ tracers_attached[r] = 0
              /\ invocations[r] = 0
              /\ permits = Capacity
                     - Cardinality({q \in Reqs \ {r} : permit_refs[q] > 0})
        IN
        /\ (method[r] = "traceCall"
              /\ pc[r] \in {"tc_connection", "tc_resolve", "tc_gas",
                            "tc_decode", "tc_acquire"}) => untouched
        /\ (Finished(r) /\ method[r] = "traceCall"
              /\ Returned(r).error \in {"InvalidOverrides",
                                        "SerializationError"}) => untouched

\* A request was refused at decoding while another request holds the permit.
C18_Witness ==
    \E r1, r2 \in Reqs :
        /\ Finished(r1) /\ Returned(r1).error = "SerializationError"
        /\ Executing(r2) /\ permits = Capacity - 1

\* C19: a traceCall request that was granted a permit never fails with the
\* shutdown error: it reaches the check before the validation-mode execution
\* with its permit in hand, and when the primary execution completed the
\* validation-mode execution has run as well, whether or not the limiter was
\* closed in the meantime.
C19_ShutdownOnlyAtAcquisition ==
    \A r \in Reqs :
        granted[r] >= 1 =>
            /\ pc[r] = "tc_validate" => vm_permit[r] = "Some"
            /\ Finished(r) =>
                  /\ Returned(r).error /= "ServerShuttingDown"
                  /\ PrimaryCompleted(r) =>
                        invocations[r] = 2 /\ output[r] /= None

\* The limiter was closed after the request got its permit, and the request
\* has run both executions and returned its trace.
C19_Witness ==
    \E r \in Reqs :
        /\ granted[r] = 1 /\ closed
        /\ Finished(r) /\ Returned(r).ok /\ invocations[r] = 2


\* The calls of a log without their outcomes.
Ops(log) == [i \in 1..Len(log) |-> <<log[i].op, log[i].db>>]
IsPrefix(a, b) == Len(a) <= Len(b) /\ \A i \in 1..Len(a) : a[i] = b[i]

\* The calls a complete run makes, in order.
ExpectedCalls(dd) ==
    IF dd
    THEN << <<"migrate_db", "server">>, <<"migrate_db", "prover">>,
            <<"run_server_genesis", "none">> >>
    ELSE << <<"drop_db_if_exists", "server">>, <<"init_db", "server">>,
            <<"migrate_db", "server">>,
            <<"drop_db_if_exists", "prover">>, <<"init_db", "prover">>,
            <<"migrate_db", "prover">>,
            <<"run_server_genesis", "none">> >>

\* C20: the genesis command's calls are at every moment a prefix of: with
\* dont_drop the server's migration, the prover's migration, the genesis
\* server run; without it drop, init, migrate of the server database, then
\* drop, init, migrate of the prover database, then the genesis server run.
\* Every call but the last returned Ok, a call that failed is the last one
\* and genesis has returned its error, a failure before the databases leaves
\* no call at all, and genesis returns Ok only after the complete sequence.
C20_GenesisOrder ==
    LET n == Len(genesis_calls)
        all_ok == \A i \in 1..n : genesis_calls[i].ok
    IN
    /\ IsPrefix(Ops(genesis_calls), ExpectedCalls(dont_drop))
    /\ \A i \in 1..(n - 1) : genesis_calls[i].ok
    /\ (n > 0 /\ ~genesis_calls[n].ok) =>
          genesis_pc = "done" /\ ~genesis_result[1].ok
    /\ (genesis_pc = "done" /\ ~genesis_result[1].ok /\ all_ok) => n = 0
    /\ (genesis_pc = "done" /\ genesis_result[1].ok) =>
          all_ok /\ Ops(genesis_calls) = ExpectedCalls(dont_drop)

\* A run without dont_drop has dropped, initialised and migrated both
\* databases, run the genesis server and returned Ok.
C20_Witness ==
    /\ ~dont_drop
    /\ genesis_pc = "done" /\ genesis_result[1].ok
    /\ Len(genesis_calls) = Len(ExpectedCalls(FALSE))

====
